---- MODULE Spec2Model ----
(***************************************************************************)
(* A model of src/index.ts: class LuaBundle (constructor, resolveRequire,  *)
(* getRequires, remapRequires, bundle) over a file system of Lua sources.  *)
(*                                                                         *)
(* A text is a sequence of tokens.  The tokens the two regular expressions *)
(* of the source look at are kept apart:                                   *)
(*   "req"  the seven letters require and the opening parenthesis, all in  *)
(*          lower case;       "REQ"  the same in any other casing;         *)
(*   "dq", "sq"  the double and the single quote;   "rp"  the closing      *)
(*   parenthesis;   "dot"  the full stop;   "nl"  the line terminator;     *)
(*   every other token ("a", "b", "c", "m", "x", "z", ...) is a run of     *)
(*   characters that none of the expressions distinguishes.                *)
(***************************************************************************)
EXTENDS Integers, Sequences, FiniteSets, TLC

\* Depth of the call stack of the runtime, in frames of getRequires: the
\* recursion of getRequires past it raises RangeError (stack exhaustion).
MaxStack == 6

VARIABLES
    fs,            \* the file system: path -> content of the files that exist
    pc,            \* position of the program: new, constructed, getRequires,
                   \* register, assemble, returned, threw
    modules,       \* LuaBundle.modules
    main,          \* bundle(): const main
    stack,         \* the active calls of getRequires, innermost last
    requiredFiles, \* bundle(): const requiredFiles
    out,           \* the text bundle() returned
    err,           \* the error thrown: its message and the reference it names
    errLine,       \* the line of index.ts that threw (0: none)
    touched,       \* the paths existsSync or readFileSync were called on
    resolved,      \* the calls of resolveRequire made at line 51: argument, result
    registered     \* the elements of requiredFiles that forEach of line 79 is through

vars == <<fs, pc, modules, main, stack, requiredFiles, out, err, errLine, touched,
          resolved, registered>>

-----------------------------------------------------------------------------
(* Sequences *)

Min(S) == CHOOSE x \in S : \A y \in S : x <= y

Range(s) == {s[i] : i \in 1..Len(s)}

RECURSIVE Flatten(_)
Flatten(ss) == IF ss = <<>> THEN <<>> ELSE Head(ss) \o Flatten(Tail(ss))

-----------------------------------------------------------------------------
(* The regular expression  require\(["'].*?["']\)  of lines 48, 50 and 62 *)

IsQuote(c) == c \in {"dq", "sq"}

\* The i flag of line 48 lets  require\(  match in any casing.
IsRequire(c, ignoreCase) == c = "req" \/ (ignoreCase /\ c = "REQ")

\* The end of the match that starts at position i, 0 when none starts there:
\* .*? is lazy, so the match ends at the first quote followed by ")" after
\* the opening quote; "." matches no line terminator.
MatchEndAt(text, i, ignoreCase) ==
    IF i + 1 > Len(text) THEN 0
    ELSE IF ~IsRequire(text[i], ignoreCase) \/ ~IsQuote(text[i + 1]) THEN 0
    ELSE LET close == {j \in (i + 2)..(Len(text) - 1) :
                          IsQuote(text[j]) /\ text[j + 1] = "rp"}
         IN  IF close = {} THEN 0
             ELSE IF \E k \in (i + 2)..(Min(close) - 1) : text[k] = "nl" THEN 0
             ELSE Min(close) + 1

\* All matches of the expression with the g flag, left to right, not
\* overlapping: [s, e] are the first and the last position of a match.
\* exec[i] are the matches found from position i on: after a match the search
\* goes on behind it, after a failure at the next position.
ExecAll(text, from, ignoreCase) ==
    LET exec[i \in 1..(Len(text) + 1)] ==
            IF i > Len(text) THEN <<>>
            ELSE IF MatchEndAt(text, i, ignoreCase) = 0 THEN exec[i + 1]
            ELSE <<[s |-> i, e |-> MatchEndAt(text, i, ignoreCase)]>>
                 \o exec[MatchEndAt(text, i, ignoreCase) + 1]
    IN  exec[from]

\* value.match(/require\(["'].*?["']\)/gi): the matched substrings.
MatchAll(value) ==
    LET ms == ExecAll(value, 1, TRUE)
    IN  [k \in 1..Len(ms) |-> SubSeq(value, ms[k].s, ms[k].e)]

\* v.replace(/require\(["'](.*?)["']\)/, "$1"): no g and no i flag, the
\* first match in v is replaced by its group, the rest of v is kept.
ExtractLuaPath(v) ==
    LET ms == ExecAll(v, 1, FALSE)
    IN  IF ms = <<>> THEN v
        ELSE SubSeq(v, 1, ms[1].s - 1) \o SubSeq(v, ms[1].s + 2, ms[1].e - 2)
             \o SubSeq(v, ms[1].e + 1, Len(v))

-----------------------------------------------------------------------------
(* Paths and the file system *)

\* value.split("."): the segments between the full stops, empty ones kept.
Split(value) ==
    LET dots == SelectSeq([i \in 1..Len(value) |-> i], LAMBDA i : value[i] = "dot")
    IN  [k \in 1..(Len(dots) + 1) |->
            SubSeq(value, (IF k = 1 THEN 1 ELSE dots[k - 1] + 1),
                          (IF k > Len(dots) THEN Len(value) ELSE dots[k] - 1))]

\* resolve(baseDir, ...segments): zero-length segments are ignored; a path is
\* the sequence of the components under baseDir.
PathResolve(segments) == SelectSeq(segments, LAMBDA s : s # <<>>)

\* A file is a path under baseDir and an extension.
File(segments, ext) == [segs |-> segments, ext |-> ext]

NullPath == [segs |-> <<>>, ext |-> "null"]

existsSync(p) == p \in DOMAIN fs

\* The entry file  new LuaBundle("tlp/main.lua", "tlp")  names: baseDir/main.lua
mainFile == File(<<(<<"m">>)>>, "lua")

Candidate1(value) == File(PathResolve(Split(value)), "lua")
Candidate2(value) == File(PathResolve(Split(value)), "luau")

ResolveLuauFirst(value) ==
    IF existsSync(Candidate2(value)) THEN Candidate2(value)
    ELSE IF existsSync(Candidate1(value)) THEN Candidate1(value)
    ELSE NullPath

resolveRequire(value) ==
    IF existsSync(Candidate1(value)) THEN Candidate1(value)
    ELSE IF existsSync(Candidate2(value)) THEN Candidate2(value)
    ELSE NullPath

\* The paths one call of resolveRequire probes.
Probes(value) ==
    {Candidate1(value)} \cup
    (IF existsSync(Candidate1(value)) THEN {} ELSE {Candidate2(value)})


readFileSync(p) == fs[p]

-----------------------------------------------------------------------------
(* class LuaModule *)

\* randomUUID(): a version 4 UUID; two calls never return the same one, the
\* n-th module constructed gets the n-th of them.
Uuids == <<"u1", "u2", "u3", "u4", "u5", "u6", "u7", "u8">>

LuaModule(identifier, path, content, n) ==
    [identifier |-> identifier, path |-> path, content |-> content,
     uniqueIdentifier |-> Uuids[n]]

-----------------------------------------------------------------------------
(* getRequires *)

\* The activation of getRequires(value): the matches of line 48, the position
\* of forEach in them, and the local array requires.
Frame(value) == [matches |-> MatchAll(value), idx |-> 1, requires |-> <<>>]

\* Line 53: requires.push({ luaPath, resolvedPath }).
PushRequire(requires, luaPath, resolvedPath) ==
    Append(requires, [luaPath |-> luaPath, resolvedPath |-> resolvedPath])

\* Line 55: requires.push(...this.getRequires(moduleContent)).
PushAllBefore(requires, found) == found \o requires

PushAll(requires, found) == requires \o found

\* Line 54: the text the recursive call scans.
ModuleContentOfMain(resolvedPath) == main

ModuleContent(resolvedPath) == readFileSync(resolvedPath)

-----------------------------------------------------------------------------
(* remapRequires *)

\* Line 67: this.modules.find((mod) => mod.path === resolvedPath), 0 for
\* undefined: the first module with that path.
FindModule(resolvedPath) ==
    LET hits == {i \in 1..Len(modules) : modules[i].path = resolvedPath}
    IN  IF hits = {} THEN 0 ELSE Min(hits)

RequireCall(uniqueIdentifier) == <<"req", "dq", uniqueIdentifier, "dq", "rp">>

\* The replacer callback of lines 62 to 72 on one match, whose group is ref
\* and whose matched text is site: the line that throws (0: none) and the
\* replacement.
RemapSiteLenient(ref, site) ==
    LET resolvedPath == resolveRequire(ref)
    IN  IF resolvedPath = NullPath \/ FindModule(resolvedPath) = 0
        THEN [line |-> 0, text |-> site]
        ELSE [line |-> 0,
              text |-> RequireCall(modules[FindModule(resolvedPath)].uniqueIdentifier)]

RemapSite(ref, site) ==
    LET resolvedPath == resolveRequire(ref)
    IN  IF resolvedPath = NullPath THEN [line |-> 65, text |-> <<>>]
        ELSE IF FindModule(resolvedPath) = 0 THEN [line |-> 69, text |-> <<>>]
        ELSE [line |-> 0,
              text |-> RequireCall(modules[FindModule(resolvedPath)].uniqueIdentifier)]

\* value.replace(/require\(["'](.*?)["']\)/g, callback): the callback runs on
\* the matches from left to right and the first throw ends the call.  The
\* result: the line that threw (0: none) and the reference it names, the new
\* text, and the paths the calls of resolveRequire probed.
remapRequires(value) ==
    LET ms == ExecAll(value, 1, FALSE)
        ref(k) == SubSeq(value, ms[k].s + 2, ms[k].e - 2)
        site(k) == RemapSite(ref(k), SubSeq(value, ms[k].s, ms[k].e))
        bad == {k \in 1..Len(ms) : site(k).line # 0}
        before(k) == SubSeq(value, (IF k = 1 THEN 1 ELSE ms[k - 1].e + 1), ms[k].s - 1)
        rest == SubSeq(value, (IF ms = <<>> THEN 1 ELSE ms[Len(ms)].e + 1), Len(value))
    IN  IF bad # {}
        THEN [line |-> site(Min(bad)).line, ref |-> ref(Min(bad)), text |-> <<>>,
              probes |-> UNION {Probes(ref(k)) : k \in 1..Min(bad)}]
        ELSE [line |-> 0, ref |-> <<>>,
              text |-> Flatten([k \in 1..Len(ms) |-> before(k) \o site(k).text]) \o rest,
              probes |-> UNION {Probes(ref(k)) : k \in 1..Len(ms)}]

-----------------------------------------------------------------------------
(* bundle *)

\* Line 80: this.modules.some((mod) => mod.identifier === luaPath).
NeverRegistered(mods, luaPath) == FALSE

IsRegistered(mods, luaPath) == \E i \in 1..Len(mods) : mods[i].identifier = luaPath

\* Lines 87 to 90 of the template.
Prelude ==
    <<"local modules = {}", "nl", "local require = function(name)", "nl",
      "  return modules[name]()", "nl", "end">>

\* Line 94: one module's table entry around its remapped content.
Wrapper(uniqueIdentifier, body) ==
    <<"modules[", "dq", uniqueIdentifier, "dq", "] = function()", "nl">>
    \o body \o <<"nl", "end">>

\* .join("\n") of line 96.
RECURSIVE Join(_)
Join(parts) ==
    IF parts = <<>> THEN <<>>
    ELSE IF Len(parts) = 1 THEN parts[1]
    ELSE parts[1] \o <<"nl">> \o Join(Tail(parts))

\* The template literal of lines 86 to 98.
TemplateEntryFirst(wrappers, entry) ==
    <<"nl">> \o Prelude \o <<"nl">> \o entry \o <<"nl">> \o Join(wrappers) \o <<"nl">>

Template(wrappers, entry) ==
    <<"nl">> \o Prelude \o <<"nl">> \o Join(wrappers) \o <<"nl">> \o entry \o <<"nl">>

-----------------------------------------------------------------------------
(* The file systems the program is run on *)

Req(ref) == <<"req", "dq">> \o ref \o <<"dq", "rp">>

NoFile == <<"ENOENT">>

\* Texts of the entry file.
MainTexts ==
    { Req(<<"a">>) \o Req(<<"b">>),
      Req(<<"a">>) \o <<"nl">> \o Req(<<"c">>),
      Req(<<"a">>) \o <<"x">> \o Req(<<"dot", "a">>),
      Req(<<"b">>) \o Req(<<"z">>),
      <<"req", "x", "rp", "nl">> \o Req(<<"a">>),
      <<"req", "dq", "a", "dq", "dot", "dot", "x", "rp">>,
      <<"req", "dq", "a", "dq", "dot", "dot", "dq", "b", "dq", "rp">>,
      <<"REQ", "dq", "x", "dq", "x", "rp", "x", "req", "dq", "a", "dq", "rp">>,
      <<"REQ", "dq", "x", "dq", "x", "rp", "x", "req", "dq", "a", "dq", "rp", "nl">>
          \o Req(<<"z">>),
      <<"REQ", "dq", "a", "dq", "rp">>,
      <<"req", "dq", "a", "nl", "dq", "rp">>,
      <<"req", "sq", "a", "sq", "rp">>,
      <<"x">> }

ATexts == { <<"x">>, Req(<<"b">>), Req(<<"a">>), Req(<<"z">>), Req(<<"m">>),
            Req(<<"c">>) \o Req(<<"b">>) }

ALuauTexts == { <<"x">> }

BTexts == { <<"x">>, Req(<<"a">>), Req(<<"c">>) }

CTexts == { <<"x">>, <<"req", "x", "rp">> }

FileA == File(<<(<<"a">>)>>, "lua")
FileALuau == File(<<(<<"a">>)>>, "luau")
FileB == File(<<(<<"b">>)>>, "lua")
FileC == File(<<(<<"c">>)>>, "lua")

MkFs(m, a, a2, b, c) ==
    LET all == (mainFile :> m) @@ (FileA :> a) @@ (FileALuau :> a2)
               @@ (FileB :> b) @@ (FileC :> c)
    IN  [p \in {q \in DOMAIN all : all[q] # NoFile} |-> all[p]]

FileSystems ==
    { MkFs(m, a, a2, b, c) :
        m \in MainTexts \cup {NoFile}, a \in ATexts \cup {NoFile},
        a2 \in ALuauTexts \cup {NoFile}, b \in BTexts \cup {NoFile},
        c \in CTexts \cup {NoFile} }

-----------------------------------------------------------------------------
(* The program *)

NoError == [msg |-> "", ref |-> <<>>]

Init ==
    /\ fs \in FileSystems
    /\ pc = "new"
    /\ modules = <<>>
    /\ main = <<>>
    /\ stack = <<>>
    /\ requiredFiles = <<>>
    /\ out = <<>>
    /\ err = NoError
    /\ errLine = 0
    /\ touched = {}
    /\ resolved = {}
    /\ registered = 0

\* Line 31: the test of the constructor.
MainFileUnchecked == TRUE

MainFileExists == existsSync(mainFile)

\* Lines 30 to 36: new LuaBundle(mainFile, baseDir).
Constructor ==
    /\ pc = "new"
    /\ touched' = touched \cup {mainFile}
    /\ IF ~MainFileExists
       THEN /\ pc' = "threw"
            /\ err' = [msg |-> "Main file does not exist", ref |-> <<>>]
            /\ errLine' = 32
       ELSE /\ pc' = "constructed"
            /\ UNCHANGED <<err, errLine>>
    /\ UNCHANGED <<fs, modules, main, stack, requiredFiles, out, resolved, registered>>

\* Lines 76 and 77: bundle() reads the entry file and calls getRequires(main).
BundleBegin ==
    /\ pc = "constructed"
    /\ touched' = touched \cup {mainFile}
    /\ IF existsSync(mainFile)
       THEN /\ main' = readFileSync(mainFile)
            /\ stack' = <<Frame(readFileSync(mainFile))>>
            /\ pc' = "getRequires"
            /\ UNCHANGED <<err, errLine>>
       ELSE /\ pc' = "threw"
            /\ err' = [msg |-> "ENOENT: no such file or directory", ref |-> <<>>]
            /\ errLine' = 76
            /\ UNCHANGED <<main, stack>>
    /\ UNCHANGED <<fs, modules, requiredFiles, out, resolved, registered>>

\* Lines 49 to 57: the callback of forEach on the next match of the innermost
\* call, up to the recursive call of line 55.
GetRequiresStep ==
    /\ pc = "getRequires"
    /\ LET top == stack[Len(stack)] IN
       /\ top.idx <= Len(top.matches)
       /\ LET luaPath == ExtractLuaPath(top.matches[top.idx])
              resolvedPath == resolveRequire(luaPath)
              caller == [top EXCEPT !.idx = top.idx + 1]
          IN  IF resolvedPath = NullPath
              THEN /\ stack' = [stack EXCEPT ![Len(stack)] = caller]
                   /\ touched' = touched \cup Probes(luaPath)
                   /\ UNCHANGED <<pc, err, errLine>>
              ELSE /\ touched' = touched \cup Probes(luaPath) \cup {resolvedPath}
                   /\ IF Len(stack) < MaxStack
                      THEN /\ stack' =
                                Append([stack EXCEPT ![Len(stack)] =
                                          [caller EXCEPT !.requires =
                                              PushRequire(top.requires, luaPath, resolvedPath)]],
                                       Frame(ModuleContent(resolvedPath)))
                           /\ UNCHANGED <<pc, err, errLine>>
                      ELSE /\ pc' = "threw"
                           /\ err' = [msg |-> "Maximum call stack size exceeded",
                                      ref |-> <<>>]
                           /\ errLine' = 55
                           /\ stack' = <<>>
       /\ resolved' = resolved \cup
              {[value |-> ExtractLuaPath(top.matches[top.idx]),
                path |-> resolveRequire(ExtractLuaPath(top.matches[top.idx]))]}
    /\ UNCHANGED <<fs, modules, main, requiredFiles, out, registered>>

\* Line 58: the innermost call returns its array, to line 55 of its caller or
\* to line 77 of bundle().
GetRequiresReturn ==
    /\ pc = "getRequires"
    /\ LET top == stack[Len(stack)] IN
       /\ top.idx > Len(top.matches)
       /\ IF Len(stack) = 1
          THEN /\ requiredFiles' = top.requires
               /\ stack' = <<>>
               /\ pc' = "register"
          ELSE /\ stack' = [SubSeq(stack, 1, Len(stack) - 1) EXCEPT ![Len(stack) - 1] =
                               [@ EXCEPT !.requires = PushAll(@, top.requires)]]
               /\ UNCHANGED <<pc, requiredFiles>>
    /\ UNCHANGED <<fs, modules, main, out, err, errLine, touched, resolved, registered>>

\* Lines 80 to 83: the callback of forEach on the next element of
\* requiredFiles.
RegisterStep ==
    /\ pc = "register"
    /\ registered < Len(requiredFiles)
    /\ registered' = registered + 1
    /\ IF IsRegistered(modules, requiredFiles[registered + 1].luaPath)
       THEN UNCHANGED <<modules, touched>>
       ELSE /\ modules' = Append(modules,
                              LuaModule(requiredFiles[registered + 1].luaPath,
                                        requiredFiles[registered + 1].resolvedPath,
                                        readFileSync(requiredFiles[registered + 1].resolvedPath),
                                        Len(modules) + 1))
            /\ touched' = touched \cup {requiredFiles[registered + 1].resolvedPath}
    /\ UNCHANGED <<fs, pc, main, stack, requiredFiles, out, err, errLine, resolved>>

\* Line 84: forEach is through.
RegisterEnd ==
    /\ pc = "register"
    /\ registered = Len(requiredFiles)
    /\ pc' = "assemble"
    /\ UNCHANGED <<fs, modules, main, stack, requiredFiles, out, err, errLine, touched,
                   resolved, registered>>

\* Lines 86 to 100: the template is evaluated, the modules in order and then
\* the entry text; the first remapRequires that throws ends bundle().
bundledCode ==
    LET body == [i \in 1..Len(modules) |-> remapRequires(modules[i].content)]
        entry == remapRequires(main)
        bad == {i \in 1..Len(modules) : body[i].line # 0}
        thrown == IF bad # {} THEN body[Min(bad)] ELSE entry
        ran == IF bad # {} THEN 1..Min(bad) ELSE 1..Len(modules)
        probes == UNION {body[i].probes : i \in ran}
                  \cup (IF bad # {} THEN {} ELSE entry.probes)
    IN  IF thrown.line # 0
        THEN [line |-> thrown.line, ref |-> thrown.ref, text |-> <<>>, probes |-> probes]
        ELSE [line |-> 0, ref |-> <<>>,
              text |-> Template([i \in 1..Len(modules) |->
                                    Wrapper(modules[i].uniqueIdentifier, body[i].text)],
                                entry.text),
              probes |-> probes]

Assemble ==
    /\ pc = "assemble"
    /\ \E code \in {bundledCode} :
          /\ pc' = IF code.line # 0 THEN "threw" ELSE "returned"
          /\ err' = IF code.line # 0
                    THEN [msg |-> "Module not found", ref |-> code.ref]
                    ELSE err
          /\ errLine' = code.line
          /\ out' = code.text
          /\ touched' = touched \cup code.probes
    /\ UNCHANGED <<fs, modules, main, stack, requiredFiles, resolved, registered>>

Next ==
    \/ Constructor
    \/ BundleBegin
    \/ GetRequiresStep
    \/ GetRequiresReturn
    \/ RegisterStep
    \/ RegisterEnd
    \/ Assemble

Spec == Init /\ [][Next]_vars

\* The program has not ended: some action is enabled (a constructor or a
\* bundle() that neither returned nor threw always has a next step).
CanStep == pc \notin {"returned", "threw"}

\* The program is synchronous and single-threaded: while it has not ended it
\* takes its next step.  This is weak fairness of Next, WF_vars(Next), written
\* out with CanStep for ENABLED <<Next>>_vars.
FairSpec == Spec /\ ([]<>(~CanStep) \/ []<><<Next>>_vars)

-----------------------------------------------------------------------------
(* The require graph of a file system, as getRequires follows it *)

\* The references getRequires extracts from a text, in order of appearance.
RefsOf(text) == [k \in 1..Len(MatchAll(text)) |-> ExtractLuaPath(MatchAll(text)[k])]

\* The files one file requires: the references of its text that resolve.
Requires(p) == {resolveRequire(r) : r \in Range(RefsOf(fs[p]))} \ {NullPath}

RECURSIVE ReachFrom(_)
ReachFrom(S) ==
    LET more == S \cup UNION {Requires(p) : p \in S}
    IN  IF more = S THEN S ELSE ReachFrom(more)

\* The files reachable from the entry file, the entry file included.
Reachable == IF existsSync(mainFile) THEN ReachFrom({mainFile}) ELSE {}

\* Some reachable file requires itself, directly or through other files.
Cyclic == \E p \in Reachable : p \in ReachFrom(Requires(p))

Done == pc \in {"returned", "threw"}

\* bundle() went past extraction: getRequires(main) returned.
Extracted == pc \in {"register", "assemble", "returned"}
             \/ (pc = "threw" /\ errLine \in {65, 69})

\* The uniqueIdentifiers of the table entries of a bundle text, in order.
WrapIds(text) ==
    LET at == SelectSeq([i \in 1..Len(text) |-> i], LAMBDA i : text[i] = "modules[")
    IN  [k \in 1..Len(at) |-> text[at[k] + 2]]

\* sub occurs in text as a run of consecutive tokens.
Occurs(sub, text) ==
    \E i \in 1..(Len(text) - Len(sub) + 1) : SubSeq(text, i, i + Len(sub) - 1) = sub

-----------------------------------------------------------------------------
(* C1 *)

ExtractedRefs == {requiredFiles[i].luaPath : i \in 1..Len(requiredFiles)}

\* C1: when bundle() returns text (which it does only on a graph without a
\* cycle), the text holds exactly one table entry per distinct reference that
\* getRequires returned: as many entries as distinct references, every
\* reference the identifier of exactly one module whose uniqueIdentifier is
\* wrapped, every module a returned reference, and the uniqueIdentifiers of
\* the entries pairwise different.
C1_OneEntryPerReference ==
    pc = "returned" =>
        LET ids == WrapIds(out) IN
        /\ ~Cyclic
        /\ Len(ids) = Cardinality(ExtractedRefs)
        /\ \A i, j \in 1..Len(ids) : i # j => ids[i] # ids[j]
        /\ \A r \in ExtractedRefs :
              Cardinality({i \in 1..Len(modules) :
                              /\ modules[i].identifier = r
                              /\ modules[i].uniqueIdentifier \in Range(ids)}) = 1
        /\ \A i \in 1..Len(modules) : modules[i].identifier \in ExtractedRefs

\* A diamond: text was returned, some reference was extracted more than once
\* and two references at least were extracted.
C1_Witness ==
    /\ pc = "returned"
    /\ Len(requiredFiles) > Cardinality(ExtractedRefs)
    /\ Cardinality(ExtractedRefs) >= 2

-----------------------------------------------------------------------------
(* C2 *)

\* First discovery in a depth-first, pre-order walk of the require graph with
\* a worklist and the set of the references seen: todo holds the references
\* still to visit, the next one first; seen those discovered, in order.
RECURSIVE Discover(_, _)
Discover(todo, seen) ==
    IF todo = <<>> THEN seen
    ELSE IF resolveRequire(Head(todo)) = NullPath \/ Head(todo) \in Range(seen)
         THEN Discover(Tail(todo), seen)
         ELSE Discover(RefsOf(fs[resolveRequire(Head(todo))]) \o Tail(todo),
                       Append(seen, Head(todo)))

\* C2: once the modules are registered, their order is the order of first
\* discovery in a depth-first, pre-order walk from the entry text, each
\* text's require calls taken in order of appearance.
C2_DiscoveryOrder ==
    Extracted /\ (pc = "register" => registered = Len(requiredFiles)) =>
        [i \in 1..Len(modules) |-> modules[i].identifier]
            = Discover(RefsOf(main), <<>>)

\* The entry requires a then c and a requires b: b is registered between.
C2_Witness ==
    /\ pc = "assemble"
    /\ main = Req(<<"a">>) \o <<"nl">> \o Req(<<"c">>)
    /\ [i \in 1..Len(modules) |-> modules[i].identifier] = <<(<<"a">>), <<"b">>, <<"c">>>>

-----------------------------------------------------------------------------
(* C3 *)

\* C3: on a graph without a cycle bundle() ends, returning or throwing, and
\* never by exhausting the stack; on a graph with a cycle the recursion of
\* getRequires fills the stack whatever its depth, bundle() ends by
\* RangeError at line 55 and never gets past extraction.
C3_Termination ==
    /\ (~Cyclic) ~> (Done /\ errLine # 55)
    /\ (Cyclic /\ pc = "new") ~> (Len(stack) = MaxStack)
    /\ Cyclic ~> (pc = "threw" /\ errLine = 55)
    /\ [](Cyclic => ~Extracted)

\* A run that ended by exhausting the stack.
C3_Witness == pc = "threw" /\ errLine = 55 /\ Cyclic

-----------------------------------------------------------------------------
(* C4 *)

\* The references of the call sites remapRequires finds in a text.
SitesOf(text) ==
    [k \in 1..Len(ExecAll(text, 1, FALSE)) |->
        SubSeq(text, ExecAll(text, 1, FALSE)[k].s + 2, ExecAll(text, 1, FALSE)[k].e - 2)]

HasUnresolvable(text) == \E r \in Range(SitesOf(text)) : resolveRequire(r) = NullPath

\* bundle() was called and ended, and the entry text or the content of a
\* registered module holds a call site with an unresolvable reference.
UnresolvableSeen ==
    /\ Done /\ errLine # 32
    /\ \/ HasUnresolvable(fs[mainFile])
       \/ \E i \in 1..Len(modules) : HasUnresolvable(modules[i].content)

\* Extraction tolerates: nothing getRequires holds or returns is unresolved,
\* and while it runs nothing was thrown.
ExtractionOmits ==
    /\ \A i \in 1..Len(requiredFiles) :
          /\ requiredFiles[i].resolvedPath # NullPath
          /\ resolveRequire(requiredFiles[i].luaPath) = requiredFiles[i].resolvedPath
    /\ \A f \in 1..Len(stack) : \A i \in 1..Len(stack[f].requires) :
          /\ stack[f].requires[i].resolvedPath # NullPath
          /\ resolveRequire(stack[f].requires[i].luaPath) = stack[f].requires[i].resolvedPath
    /\ pc = "getRequires" => errLine = 0

\* C4 as stated: extraction omits an unresolvable reference without an
\* error, and bundle() throws 'Module "<reference>" not found' and returns
\* no text whenever the entry text or the content of a registered module
\* holds a call site with an unresolvable reference.
C4_AsStated ==
    /\ ExtractionOmits
    /\ UnresolvableSeen =>
          /\ pc = "threw" /\ err.msg = "Module not found" /\ out = <<>>

\* C4 amended: the same, for the calls of bundle() in which extraction
\* terminates (no require cycle is reachable from the entry file); the
\* error is thrown at line 65 or 69 for the first call site that fails, and
\* the reference a throw of line 65 names is unresolvable.
C4_StrictRemap ==
    /\ ExtractionOmits
    /\ (UnresolvableSeen /\ ~Cyclic) =>
          /\ pc = "threw" /\ err.msg = "Module not found" /\ out = <<>>
          /\ errLine \in {65, 69}
          /\ errLine = 65 => resolveRequire(err.ref) = NullPath
    /\ (pc = "threw" /\ errLine = 65) =>
          /\ resolveRequire(err.ref) = NullPath
          /\ \/ err.ref \in Range(SitesOf(main))
             \/ \E i \in 1..Len(modules) : err.ref \in Range(SitesOf(modules[i].content))

\* Extraction found b and dropped z without an error, remapping the entry
\* text threw on z.
C4_Witness ==
    /\ pc = "threw" /\ errLine = 65 /\ err.ref = <<"z">>
    /\ <<"z">> \in Range(RefsOf(main))
    /\ Len(requiredFiles) >= 1
    /\ \A i \in 1..Len(requiredFiles) : requiredFiles[i].luaPath # <<"z">>

-----------------------------------------------------------------------------
(* C5 *)

\* Position i of text starts a require call whose argument is one string
\* literal: a quote, characters that are neither quotes nor line
\* terminators, the same quote, the closing parenthesis.
LiteralEnd(text, i) ==
    {j \in (i + 2)..(Len(text) - 1) :
        /\ text[j] = text[i + 1] /\ text[j + 1] = "rp"
        /\ \A k \in (i + 2)..(j - 1) : ~IsQuote(text[k]) /\ text[k] # "nl"}

IsLiteralCall(text, i) ==
    /\ i + 1 <= Len(text) /\ text[i] = "req" /\ IsQuote(text[i + 1])
    /\ LiteralEnd(text, i) # {}

\* The arguments of the literal require calls of a text.
LiteralRefs(text) ==
    {SubSeq(text, i + 2, Min(LiteralEnd(text, i)) - 1) :
        i \in {k \in 1..Len(text) : IsLiteralCall(text, k)}}

\* C5 as stated: a require call of the entry text whose argument is not a
\* single string literal starts no match of either expression; an error of
\* remapRequires names the argument of a literal call; and an entry text
\* without any literal call is returned unchanged at the end of the bundle.
C5_PassThrough ==
    /\ pc \notin {"new", "constructed"} =>
          \A i \in 1..Len(main) :
              (main[i] = "req" /\ ~IsLiteralCall(main, i)) =>
                  /\ MatchEndAt(main, i, TRUE) = 0
                  /\ MatchEndAt(main, i, FALSE) = 0
    /\ (pc = "threw" /\ errLine \in {65, 69}) =>
          err.ref \in LiteralRefs(main)
                      \cup UNION {LiteralRefs(modules[i].content) : i \in 1..Len(modules)}
    /\ (Done /\ errLine # 32 /\ ~Cyclic /\ LiteralRefs(main) = {}) =>
          /\ pc = "returned"
          /\ Len(out) > Len(main)
          /\ SubSeq(out, Len(out) - Len(main), Len(out)) = main \o <<"nl">>

-----------------------------------------------------------------------------
(* C6 *)

\* The components a reference names: its maximal runs without a full stop.
Components(value) ==
    LET starts == SelectSeq([i \in 1..Len(value) |-> i],
                            LAMBDA i : value[i] # "dot" /\ (i = 1 \/ value[i - 1] = "dot"))
        last(i) == CHOOSE j \in i..Len(value) :
                       /\ \A k \in i..j : value[k] # "dot"
                       /\ (j = Len(value) \/ value[j + 1] = "dot")
    IN  [k \in 1..Len(starts) |-> SubSeq(value, starts[k], last(starts[k]))]

ResolvedAsSpecified(c) ==
    LET lua == File(Components(c.value), "lua")
        luau == File(Components(c.value), "luau")
    IN  /\ lua \in DOMAIN fs => c.path = lua
        /\ (lua \notin DOMAIN fs /\ luau \in DOMAIN fs) => c.path = luau
        /\ c.path = NullPath <=> (lua \notin DOMAIN fs /\ luau \notin DOMAIN fs)

\* C6: every call of resolveRequire returns the .lua file of the components
\* of its argument when that exists, the .luau file only when the .lua file
\* does not exist, and null exactly when neither exists; and the steps that
\* call it in getRequires change neither the file system nor the modules.
C6_ResolutionOrder ==
    /\ [](\A c \in resolved : ResolvedAsSpecified(c))
    /\ [][fs' = fs /\ (pc = "getRequires" => modules' = modules)]_vars

\* A reference resolved to its .lua file while the .luau file exists too, and
\* a reference with an empty segment resolved.
C6_Witness ==
    /\ FileALuau \in DOMAIN fs
    /\ [value |-> <<"a">>, path |-> FileA] \in resolved
    /\ [value |-> <<"dot", "a">>, path |-> FileA] \in resolved

-----------------------------------------------------------------------------
(* C7 *)

\* C7: with no entry file the constructor throws, nothing else is probed or
\* read, and the program never gets to bundle(): no text read, no call of
\* getRequires, no module, no output.
C7_FailFast ==
    ~existsSync(mainFile) =>
        /\ pc \in {"new", "threw"}
        /\ pc = "threw" => (errLine = 32 /\ err.msg = "Main file does not exist")
        /\ touched \subseteq {mainFile}
        /\ main = <<>> /\ stack = <<>> /\ requiredFiles = <<>>
        /\ modules = <<>> /\ out = <<>> /\ resolved = {}

\* The constructor threw on a file system that holds other files.
C7_Witness ==
    /\ pc = "threw" /\ errLine = 32
    /\ touched = {mainFile}
    /\ FileA \in DOMAIN fs

-----------------------------------------------------------------------------
(* C8 *)

\* C8 as stated: two modules registered for one file have different
\* uniqueIdentifiers, both are wrapped, and the returned text requires both.
C8_AliasesReferenced ==
    pc = "returned" =>
        \A i, j \in 1..Len(modules) :
            (i # j /\ modules[i].path = modules[j].path) =>
                /\ modules[i].uniqueIdentifier # modules[j].uniqueIdentifier
                /\ modules[i].uniqueIdentifier \in Range(WrapIds(out))
                /\ Occurs(RequireCall(modules[i].uniqueIdentifier), out)

-----------------------------------------------------------------------------
(* C9 *)

\* C9 as stated: bundle() never throws at line 69, the branch of
\* remapRequires for a resolved path that no module is registered for.
C9_InconsistencyUnreachable == errLine # 69

-----------------------------------------------------------------------------
(* C10 *)

\* C10: the returned text is the prelude, the table entries of the modules
\* in the order of modules, each around its remapped content, then the
\* remapped entry text, unwrapped, once; no module is registered for the
\* entry file, and no text is returned when a reachable file requires it.
C10_OutputShape ==
    /\ \A i \in 1..Len(modules) : modules[i].path # mainFile
    /\ (\E p \in Reachable : mainFile \in Requires(p)) => pc # "returned"
    /\ pc = "returned" =>
          /\ out = <<"nl">> \o Prelude \o <<"nl">>
                   \o Flatten([i \in 1..Len(modules) |->
                         Wrapper(modules[i].uniqueIdentifier,
                                 remapRequires(modules[i].content).text)
                         \o (IF i < Len(modules) THEN <<"nl">> ELSE <<>>)])
                   \o <<"nl">> \o remapRequires(main).text \o <<"nl">>
          /\ WrapIds(out) = [i \in 1..Len(modules) |-> modules[i].uniqueIdentifier]
          /\ \A k \in 1..Len(out) :
                 out[k] = "end" => k < Len(out) - Len(remapRequires(main).text)

\* Text was returned with two modules at least and a remapped entry text.
C10_Witness ==
    /\ pc = "returned"
    /\ Len(modules) >= 2
    /\ remapRequires(main).text # main

====
